---- MODULE Spec2Model ----
(***************************************************************************)
(* Model of the tourism-wellness MLOps pipeline.                           *)
(*                                                                         *)
(*   SpecCols  data_prep.infer_cols applied to bounded datasets            *)
(*   SpecPush  push_space.main against a hub that another actor changes    *)
(*   Spec      the batch stages register_dataset, data_prep, train,        *)
(*             publish_model and the inference app, run one at a time      *)
(*             over a shared local disk and hub                            *)
(***************************************************************************)
EXTENDS Integers, Sequences, FiniteSets, TLC

VARIABLES
    df,          \* infer_cols harness: the DataFrame handed to infer_cols
    cols_out,    \* infer_cols harness: the returned pair, or None before the call
    hubKinds,    \* push_space: the kinds under which --space-id exists on the hub
    readme,      \* push_space: state of <folder>/README.md
    spc,         \* push_space: position in push_space.main
    sloc,        \* push_space: locals of main (what the probes observed)
    scalls,      \* push_space: create_repo / upload_folder calls made, with outcome
    sdiag,       \* push_space: how the process ended
    lib,         \* pipeline: what the seeded library calls yield for the dataset
    localCsv,    \* pipeline: the local CSV register_dataset uploads
    hubData,     \* pipeline: the dataset repository on the hub
    hubModel,    \* pipeline: the model repository on the hub
    disk,        \* pipeline: the artifacts directory, path -> content
    pc,          \* pipeline: position of the running script
    loc,         \* pipeline: locals of the running script
    wrote,       \* pipeline: paths the running script has created or written
    calls,       \* pipeline: hub and estimator calls the running script has made
    diag         \* pipeline: how the running script ended

cvars == <<df, cols_out>>
svars == <<hubKinds, readme, spc, sloc, scalls, sdiag>>
pvars == <<lib, localCsv, hubData, hubModel, disk, pc, loc, wrote, calls, diag>>
vars  == <<cvars, svars, pvars>>

None == "None"

(***************************************************************************)
(* Column names are Python strings, modelled as tuples of code points so   *)
(* that sorted() compares them as Python does.                             *)
(***************************************************************************)
\* "ProdTaken"
TARGET == <<80, 114, 111, 100, 84, 97, 107, 101, 110>>

MaxCols == 3

RECURSIVE LexLess(_, _)
\* Python's str.__lt__ : code point by code point, a proper prefix is smaller
LexLess(a, b) ==
    IF b = <<>> THEN FALSE
    ELSE IF a = <<>> THEN TRUE
    ELSE IF Head(a) # Head(b) THEN Head(a) < Head(b)
    ELSE LexLess(Tail(a), Tail(b))

RECURSIVE Insert(_, _)
Insert(x, s) ==
    IF s = <<>> THEN <<x>>
    ELSE IF LexLess(x, Head(s)) THEN <<x>> \o s
    ELSE <<Head(s)>> \o Insert(x, Tail(s))

RECURSIVE sorted(_)
\* Python's sorted() on a list of str
sorted(s) == IF s = <<>> THEN <<>> ELSE Insert(Head(s), sorted(Tail(s)))

\* the names of a sequence of columns, in order
ColNames(columns) == [i \in 1..Len(columns) |-> columns[i].name]

\* data_prep.infer_cols without the final sorted()
infer_cols_unsorted(d) ==
    <<ColNames(SelectSeq(d, LAMBDA c : c.name # TARGET /\ c.numeric)),
      ColNames(SelectSeq(d, LAMBDA c : c.name # TARGET /\ ~c.numeric))>>

\* data_prep.infer_cols: d is df.columns with each column's dtype class
infer_cols(d) ==
    LET numeric_cols == ColNames(SelectSeq(d, LAMBDA c : c.name # TARGET /\ c.numeric))
        categorical_cols == ColNames(SelectSeq(d, LAMBDA c : c.name # TARGET /\ ~c.numeric))
    IN  <<sorted(numeric_cols), sorted(categorical_cols)>>

(***************************************************************************)
(* SpecCols: infer_cols on every DataFrame within the bounds.  read_csv    *)
(* makes column names unique, so the columns of a DataFrame are distinct.  *)
(***************************************************************************)
\* the column names DataFrames are built from: "A", "Aa", "a", "aA" and the
\* label; upper case sorts before lower case and a prefix before its extensions
Names == {<<65>>, <<65, 97>>, <<97>>, <<97, 65>>, TARGET}

Column == [name : Names, numeric : BOOLEAN]

DataFrames ==
    {d \in UNION {[1..n -> Column] : n \in 0..MaxCols} :
        \A i, j \in 1..Len(d) : i # j => d[i].name # d[j].name}

Range(s) == {s[i] : i \in 1..Len(s)}

(***************************************************************************)
(* push_space.py                                                           *)
(***************************************************************************)
Kinds == {"space", "dataset", "model"}

\* ensure_space_readme: README.md is written when absent, a front matter is
\* prepended when it has none, and it is left alone otherwise
ensure_space_readme(r) ==
    IF r = "absent" THEN "header"
    ELSE IF r = "plain" THEN "header+plain"
    ELSE r

ReadmeStates == {"absent", "plain", "header", "header+plain"}

SInitLoc == [is_space |-> None, other |-> None]

\* a call of create_repo / upload_folder: its outcome and, for reference, the
\* kinds under which the identifier existed on the hub when it was made
SCall(op, result) == [op |-> op, result |-> result, hub |-> hubKinds]

\* api.repo_info(repo_id, repo_type=t): returns when the repository exists as t
\* and the request goes through, raises otherwise (not found, or any other error)
repo_info(t, fails) == t \in hubKinds /\ ~fails

\* main, lines 63-67, ignoring what exists_as_other_type returned
RejectOther_never(other) == FALSE

\* main, line 63: `if other:`
RejectOther(other) == other # None

\* main, line 80, continuing after any HTTP error
ContinueAfterCreateError_any(status) == TRUE

\* main, line 80: `e.response is not None and e.response.status_code == 409`
ContinueAfterCreateError(status) == status # None /\ status = "409"

\* what create_repo(repo_type="space", exist_ok=False) can answer: success when no
\* space has the identifier, 409 when one has, or another HTTP error (an HTTP
\* error may also carry no response), or an error that is no HfHubHTTPError
CreateOutcomes ==
    (IF "space" \in hubKinds THEN {[exc |-> "HfHubHTTPError", status |-> "409"]}
                             ELSE {[exc |-> None, status |-> None]})
    \cup {[exc |-> "HfHubHTTPError", status |-> "403"],
          [exc |-> "HfHubHTTPError", status |-> None],
          [exc |-> "ConnectionError", status |-> None]}

\* what api.upload_folder(repo_type="space") can answer
UploadOutcomes ==
    (IF "space" \in hubKinds THEN {[exc |-> None, status |-> None]}
                             ELSE {[exc |-> "HfHubHTTPError", status |-> "404"]})
    \cup {[exc |-> "HfHubHTTPError", status |-> "403"],
          [exc |-> "ConnectionError", status |-> None]}

(***************************************************************************)
(* The batch stages and the inference app: values.                         *)
(*                                                                         *)
(* An optional value is <<>> (absent, Python's None, a missing file) or    *)
(* <<v>>.  A label vector is kept as its class counts <<#0, #1>>: the      *)
(* order of the rows enters no metric.  A float is kept as a fraction, and *)
(* NaN as 0/0.                                                             *)
(***************************************************************************)
Some(v) == <<v>>
Nil == <<>>
Get(o) == o[1]

Frac(n, d) == [num |-> n, den |-> d]
NaN == Frac(0, 0)
IsNaN(x) == x.den = 0
\* Python's float > and ==, false when a side is NaN
FloatGT(a, b) == ~IsNaN(a) /\ ~IsNaN(b) /\ a.num * b.den > b.num * a.den
FloatEQ(a, b) == ~IsNaN(a) /\ ~IsNaN(b) /\ a.num * b.den = b.num * a.den
\* sklearn's zero_division=0
Ratio(n, d) == IF d = 0 THEN Frac(0, 1) ELSE Frac(n, d)

Col(name, numeric) == [name |-> name, numeric |-> numeric]

\* a CSV as read_csv sees it: the header with each column's dtype class, the
\* number of distinct rows by label, and the number of rows without a label
Csv(columns, n0, n1, unlabelled) ==
    [columns |-> columns, labels |-> <<n0, n1>>, unlabelled |-> unlabelled]

\* the CSVs the pipeline is run on: a two-class one, one without the label
\* column, a single-class one, and one whose smaller class has a single row
PipelineCsvs ==
    {Csv(<<Col(<<97>>, TRUE), Col(TARGET, TRUE), Col(<<65>>, FALSE)>>, 8, 2, 1),
     Csv(<<Col(<<97>>, TRUE), Col(<<65>>, FALSE)>>, 0, 0, 0),
     Csv(<<Col(<<65>>, FALSE), Col(TARGET, TRUE)>>, 5, 0, 0),
     Csv(<<Col(<<97>>, TRUE), Col(TARGET, TRUE)>>, 4, 1, 0)}

HasTarget(csv) == \E i \in 1..Len(csv.columns) : csv.columns[i].name = TARGET

SingleClass(y) == y[1] = 0 \/ y[2] = 0

\* ceil(0.2 * n), the test_size of data_prep.main line 71
TestSize(n) == (n + 4) \div 5

\* train_test_split(test_size=0.2, random_state=42, stratify=y): the test
\* partitions it may return for labels y, none when it raises (a class with
\* fewer than two rows, or fewer rows than classes on a side).  Each class is
\* represented in the test partition by its share rounded down or up.
Splits(y) ==
    LET n == y[1] + y[2]
        classes == {c \in 1..2 : y[c] > 0}
    IN  IF \/ n = 0
           \/ \E c \in classes : y[c] < 2
           \/ TestSize(n) < Cardinality(classes)
           \/ n - TestSize(n) < Cardinality(classes)
        THEN {}
        ELSE {t \in (0..TestSize(n)) \X (0..TestSize(n)) :
                /\ t[1] + t[2] = TestSize(n)
                /\ \A c \in 1..2 : t[c] \in {y[c] \div 5, TestSize(y[c])}}

\* train.main lines 62-65: the menu, in insertion order
candidates == <<"logreg", "rf">>

\* LogisticRegression and RandomForestClassifier both have predict_proba
Estimator(name) == [name |-> name, predict_proba |-> TRUE]

\* what a fitted candidate answers on the test partition yt: the true and false
\* positives of predict, and the ROC-AUC of predict_proba where it is defined
Outputs(yt) ==
    [tp : 0..yt[2], fp : 0..yt[1],
     auc : IF SingleClass(yt) THEN {NaN} ELSE {Frac(1, 2), Frac(1, 1)}]

\* the seeded library calls are deterministic: for one CSV,
\* train_test_split(random_state=42) and the fitted candidates answer the same in
\* every run.  lib holds those answers.
LibsFor(csv) ==
    IF csv = Nil \/ ~HasTarget(Get(csv)) \/ Splits(Get(csv).labels) = {}
    THEN {[split |-> Nil, out |-> Nil]}
    ELSE UNION {[split : {Some(t)}, out : {Some(o) : o \in [1..Len(candidates) -> Outputs(t)]}] :
                    t \in Splits(Get(csv).labels)}

\* model.fit(Xt_train, y_train): LogisticRegression refuses a single class
FitRaises(name, y_train) == name = "logreg" /\ SingleClass(y_train)

\* roc_auc_score(yt, proba) raises when yt holds a single class
RocAucRaises(yt) == SingleClass(yt)

Metrics4(yt, o) ==
    LET tp == o.tp
        fp == o.fp
        fn == yt[2] - o.tp
        tn == yt[1] - o.fp
    IN  [accuracy |-> Ratio(tp + tn, yt[1] + yt[2]),
         precision |-> Ratio(tp, tp + fp),
         recall |-> Ratio(tp, tp + fn),
         f1 |-> Ratio(2 * tp, 2 * tp + fp + fn)]

\* train.evaluate_model without the try/except around roc_auc_score
evaluate_model_no_try(model, yt, o) ==
    IF model.predict_proba /\ RocAucRaises(yt)
    THEN [raised |-> TRUE, metrics |-> Metrics4(yt, o)]
    ELSE [raised |-> FALSE,
          metrics |-> IF model.predict_proba
                      THEN Metrics4(yt, o) @@ [roc_auc |-> o.auc]
                      ELSE Metrics4(yt, o)]

\* train.evaluate_model(model, Xt, yt); o is what model answers on Xt
evaluate_model(model, yt, o) ==
    [raised |-> FALSE,
     metrics |-> IF model.predict_proba
                 THEN Metrics4(yt, o)
                      @@ [roc_auc |-> IF RocAucRaises(yt) THEN NaN ELSE o.auc]
                 ELSE Metrics4(yt, o)]

\* train.main line 79 with >= for >
Better_or_equal(metrics, best_metrics) == ~FloatGT(best_metrics.f1, metrics.f1)

\* train.main line 79: metrics.get("f1", -1) > best_metrics.get("f1", -1)
Better(metrics, best_metrics) == FloatGT(metrics.f1, best_metrics.f1)

\* data_prep.make_preprocessor: an unfitted ColumnTransformer
make_preprocessor(numeric_cols, categorical_cols) ==
    [num |-> numeric_cols, cat |-> categorical_cols, fits |-> 0, fit_on |-> Nil]

\* a feature table: its columns, the partition it is, its number of rows
Table(columns, part, n) == [columns |-> columns, part |-> part, n |-> n]

\* ColumnTransformer.fit(X): the state of the transform afterwards
fit(p, X) == [p EXCEPT !.fits = @ + 1, !.fit_on = Some([part |-> X.part, n |-> X.n])]

\* ColumnTransformer.transform implemented as fit_transform
transform_refits(p, X) == fit(p, X)

\* ColumnTransformer.transform(X): the state of the transform afterwards
transform(p, X) == p

\* transform raises on an unfitted transform and on a missing column
TransformRaises(p, X) ==
    p.fits = 0 \/ ~((Range(p.num) \cup Range(p.cat)) \subseteq Range(X.columns))

\* app.py line 29 with the two lists swapped
all_cols_cat_first(meta) == meta.categorical_cols \o meta.numeric_cols

\* app.py lines 27-29
all_cols(meta) == meta.numeric_cols \o meta.categorical_cols

\* app.py line 13
REQUIRED == <<"preprocessor.joblib", "model.joblib", "meta.joblib">>

ModelFiles == Range(REQUIRED) \cup {"metrics.json"}

DataCsv == "data/tourism.csv"

\* data_prep.main lines 83-90, in the order written
PrepOutputs ==
    <<"data/X_train.csv", "data/X_test.csv", "data/y_train.csv", "data/y_test.csv",
      "preprocess/preprocessor.joblib", "preprocess/meta.joblib">>

\* train.load_artifacts, in the order read
TrainInputs ==
    <<"data/X_train.csv", "data/X_test.csv", "data/y_train.csv", "data/y_test.csv",
      "preprocess/preprocessor.joblib", "preprocess/meta.joblib">>

\* train.main lines 83-90, in the order written
TrainOutputs ==
    <<"model/model.joblib", "model/meta.joblib", "model/preprocessor.joblib",
      "model/metrics.json">>

Dirs == {"data", "preprocess", "model"}

Paths == Dirs \cup Range(PrepOutputs) \cup Range(TrainOutputs)

\* a hub repository: whether it exists, and its files
Repo(files) == [exists |-> FALSE, files |-> [f \in files |-> Nil]]

\* hf_hub_download returning no path for a missing file instead of raising
hf_hub_download_lenient(repo, filename, fails) ==
    IF fails THEN [exc |-> "HfHubHTTPError", blob |-> Nil]
    ELSE [exc |-> "", blob |-> IF repo.exists THEN repo.files[filename] ELSE Nil]

\* hf_hub_download(repo_id, filename): the file, or the exception raised
hf_hub_download(repo, filename, fails) ==
    IF fails THEN [exc |-> "HfHubHTTPError", blob |-> Nil]
    ELSE IF ~repo.exists THEN [exc |-> "RepositoryNotFoundError", blob |-> Nil]
    ELSE IF repo.files[filename] = Nil THEN [exc |-> "EntryNotFoundError", blob |-> Nil]
    ELSE [exc |-> "", blob |-> repo.files[filename]]

Diag(kind, what, status) == [kind |-> kind, what |-> what, status |-> status]
NoDiag == Diag("", "", 0)

\* the locals of a script when it starts
Locals(script) ==
    [script |-> script, i |-> 1, df |-> Nil, X_train |-> Nil, X_test |-> Nil,
     y_train |-> Nil, y_test |-> Nil, preproc |-> Nil, meta |-> Nil,
     best_name |-> "None", best_model |-> Nil, best_metrics |-> [f1 |-> Frac(-1, 1)],
     logged |-> <<>>, model |-> Nil, fields |-> Nil, X |-> Nil, shown |-> Nil]

Scripts == {"register_dataset", "data_prep", "train", "publish_model", "app"}

\* no pipeline script is running and nothing has been produced yet
PIdle ==
    /\ lib = [split |-> Nil, out |-> Nil]
    /\ localCsv = Nil
    /\ hubData = Repo({DataCsv})
    /\ hubModel = Repo(ModelFiles)
    /\ disk = [p \in Paths |-> Nil]
    /\ pc = "idle"
    /\ loc = Locals("")
    /\ wrote = <<>>
    /\ calls = <<>>
    /\ diag = NoDiag

\* push_space is not running
SIdle ==
    /\ hubKinds = {}
    /\ readme = "absent"
    /\ spc = "idle"
    /\ sloc = SInitLoc
    /\ scalls = <<>>
    /\ sdiag = None

InitCols ==
    /\ df \in DataFrames
    /\ cols_out = None
    /\ SIdle
    /\ PIdle

\* the harness calls infer_cols(df) once
InferCols ==
    /\ cols_out = None
    /\ cols_out' = infer_cols(df)
    /\ UNCHANGED <<df, svars, pvars>>

NextCols == InferCols

SpecCols == InitCols /\ [][NextCols]_vars

(***************************************************************************)
(* SpecPush: one run of push_space.main.  Every hub request is a step of   *)
(* its own; between two of them another actor may create or delete the     *)
(* identifier under any kind.                                              *)
(***************************************************************************)
\* the infer_cols harness is not running
CIdle ==
    /\ df = <<>>
    /\ cols_out = None

InitPush ==
    /\ hubKinds \in SUBSET Kinds
    /\ readme \in ReadmeStates
    /\ spc = "ensure_readme"
    /\ sloc = SInitLoc
    /\ scalls = <<>>
    /\ sdiag = None
    /\ CIdle
    /\ PIdle

SExit(kind, what) == [kind |-> kind, what |-> what]

\* main, line 58
SEnsureReadme ==
    /\ spc = "ensure_readme"
    /\ readme' = ensure_space_readme(readme)
    /\ spc' = "probe_space"
    /\ UNCHANGED <<hubKinds, sloc, scalls, sdiag, cvars, pvars>>

\* main, line 61: repo_exists_as_space
SProbeSpace ==
    /\ spc = "probe_space"
    /\ \E fails \in BOOLEAN :
        LET is_space == repo_info("space", fails)
        IN  /\ sloc' = [sloc EXCEPT !.is_space = is_space]
            /\ spc' = IF is_space THEN "upload" ELSE "probe_dataset"
    /\ UNCHANGED <<hubKinds, readme, scalls, sdiag, cvars, pvars>>

\* main, lines 62-67 after exists_as_other_type returned `other`
SAfterOther(other) ==
    /\ sloc' = [sloc EXCEPT !.other = other]
    /\ IF RejectOther(other)
       THEN spc' = "exit" /\ sdiag' = SExit("SystemExit", other)
       ELSE spc' = "create" /\ UNCHANGED sdiag

\* exists_as_other_type, first turn of the loop: t = "dataset"
SProbeDataset ==
    /\ spc = "probe_dataset"
    /\ \E fails \in BOOLEAN :
        IF repo_info("dataset", fails)
        THEN SAfterOther("dataset")
        ELSE spc' = "probe_model" /\ UNCHANGED <<sloc, sdiag>>
    /\ UNCHANGED <<hubKinds, readme, scalls, cvars, pvars>>

\* exists_as_other_type, second turn of the loop: t = "model", then return None
SProbeModel ==
    /\ spc = "probe_model"
    /\ \E fails \in BOOLEAN :
        IF repo_info("model", fails) THEN SAfterOther("model") ELSE SAfterOther(None)
    /\ UNCHANGED <<hubKinds, readme, scalls, cvars, pvars>>

\* main, lines 68-83
SCreateRepo ==
    /\ spc = "create"
    /\ \E r \in CreateOutcomes :
        /\ scalls' = Append(scalls, SCall("create_repo", r))
        /\ hubKinds' = IF r.exc = None THEN hubKinds \cup {"space"} ELSE hubKinds
        /\ IF r.exc = None \/ (r.exc = "HfHubHTTPError" /\ ContinueAfterCreateError(r.status))
           THEN spc' = "upload" /\ UNCHANGED sdiag
           ELSE spc' = "exit" /\ sdiag' = SExit(r.exc, r.status)
    /\ UNCHANGED <<readme, sloc, cvars, pvars>>

\* main, lines 86-98
SUpload ==
    /\ spc = "upload"
    /\ \E r \in UploadOutcomes :
        /\ scalls' = Append(scalls, SCall("upload_folder", r))
        /\ IF r.exc = None THEN spc' = "done" /\ sdiag' = SExit("ok", None)
           ELSE IF r.exc = "HfHubHTTPError"
                THEN spc' = "exit" /\ sdiag' = SExit("SystemExit", "Upload failed")
                ELSE spc' = "exit" /\ sdiag' = SExit(r.exc, None)
    /\ UNCHANGED <<hubKinds, readme, sloc, cvars, pvars>>

\* another user of the hub creates or deletes the identifier under some kind
\* while main is running
OtherActor ==
    /\ spc \notin {"idle", "done", "exit"}
    /\ \E k \in Kinds :
        hubKinds' = IF k \in hubKinds THEN hubKinds \ {k} ELSE hubKinds \cup {k}
    /\ UNCHANGED <<readme, spc, sloc, scalls, sdiag, cvars, pvars>>

NextPush ==
    \/ SEnsureReadme
    \/ SProbeSpace
    \/ SProbeDataset
    \/ SProbeModel
    \/ SCreateRepo
    \/ SUpload
    \/ OtherActor

SpecPush == InitPush /\ [][NextPush]_vars

(***************************************************************************)
(* Spec: the CI job runs the scripts one at a time, in any order and any   *)
(* number of times, over one artifacts directory and one hub.  Every hub   *)
(* request and every file write is a step that may fail.                   *)
(***************************************************************************)
Init ==
    /\ localCsv \in {Nil} \cup {Some(c) : c \in PipelineCsvs}
    /\ lib \in LibsFor(localCsv)
    /\ hubData = Repo({DataCsv})
    /\ hubModel = Repo(ModelFiles)
    /\ disk = [p \in Paths |-> Nil]
    /\ pc = "idle"
    /\ loc = Locals("")
    /\ wrote = <<>>
    /\ calls = <<>>
    /\ diag = NoDiag
    /\ CIdle
    /\ SIdle

Call(op, arg, ok, fits) == [op |-> op, arg |-> arg, ok |-> ok, fits |-> fits]

\* the script ends with an uncaught exception or SystemExit(message): status 1
Exit(kind, what) == pc' = "exit" /\ diag' = Diag(kind, what, 1)

\* the script runs to its end
Done == pc' = "done" /\ diag' = Diag("ok", "", 0)

FirstStep(script) ==
    CASE script = "register_dataset" -> "register:check"
      [] script = "data_prep" -> "prep:download"
      [] script = "train" -> "train:mkdir"
      [] script = "publish_model" -> "publish:check"
      [] script = "app" -> "app:download"

\* the CI job (or, for the app, the Space) starts a script once the previous
\* one has ended
Start ==
    /\ pc \in {"idle", "done", "exit"}
    /\ \E script \in Scripts :
        /\ pc' = FirstStep(script)
        /\ loc' = Locals(script)
    /\ wrote' = <<>>
    /\ calls' = <<>>
    /\ diag' = NoDiag
    /\ UNCHANGED <<lib, localCsv, hubData, hubModel, disk, cvars, svars>>

\* a write that raises goes unhandled: the exception ends the script
AbortOnWriteError_swallowed(ok) == FALSE

\* data_prep.main lines 83-90 and train.main lines 83-90 have no try/except
AbortOnWriteError(ok) == ~ok

\* one write of the list `outputs`: the file is written or the write raises
WriteStep(outputs, content) ==
    \E ok \in BOOLEAN :
        LET path == outputs[loc.i]
        IN  /\ IF ok
               THEN disk' = [disk EXCEPT ![path] = Some(content)]
                    /\ wrote' = Append(wrote, path)
               ELSE UNCHANGED <<disk, wrote>>
            /\ IF AbortOnWriteError(ok)
               THEN Exit("OSError", path) /\ UNCHANGED loc
               ELSE /\ loc' = [loc EXCEPT !.i = @ + 1]
                    /\ IF loc.i = Len(outputs) THEN Done ELSE UNCHANGED <<pc, diag>>

\* mkdir(parents=True, exist_ok=True)
Mkdir(ds) ==
    /\ disk' = [p \in Paths |-> IF p \in Range(ds) THEN Some("dir") ELSE disk[p]]
    /\ wrote' = wrote \o SelectSeq(ds, LAMBDA d : disk[d] = Nil)

(*************************** register_dataset.py ***************************)
\* register_dataset.main line 14: `not os.path.exists(args.local_path)`
LocalCsvMissing(csv) == csv = Nil

\* main, lines 14-15
RegCheck ==
    /\ pc = "register:check"
    /\ IF LocalCsvMissing(localCsv)
       THEN Exit("SystemExit", "tourism_project/data/tourism.csv")
       ELSE pc' = "register:create" /\ UNCHANGED diag
    /\ UNCHANGED <<lib, localCsv, hubData, hubModel, disk, loc, wrote, calls, cvars, svars>>

\* main, lines 18-24: create_repo(repo_type="dataset", exist_ok=True)
RegCreate ==
    /\ pc = "register:create"
    /\ \E fails \in BOOLEAN :
        /\ calls' = Append(calls, Call("create_repo", "dataset", ~fails, 0))
        /\ IF fails
           THEN Exit("HfHubHTTPError", "create_repo") /\ UNCHANGED hubData
           ELSE /\ hubData' = [hubData EXCEPT !.exists = TRUE]
                /\ pc' = "register:upload"
                /\ UNCHANGED diag
    /\ UNCHANGED <<lib, localCsv, hubModel, disk, loc, wrote, cvars, svars>>

\* main, lines 26-35: api.upload_file; a path that does not exist raises
RegUpload ==
    /\ pc = "register:upload"
    /\ \E fails \in BOOLEAN :
        /\ calls' = Append(calls, Call("upload_file", DataCsv, ~fails /\ localCsv # Nil, 0))
        /\ IF fails \/ localCsv = Nil
           THEN Exit(IF fails THEN "HfHubHTTPError" ELSE "ValueError", "upload_file")
                /\ UNCHANGED hubData
           ELSE hubData' = [hubData EXCEPT !.files[DataCsv] = localCsv] /\ Done
    /\ UNCHANGED <<lib, localCsv, hubModel, disk, loc, wrote, cvars, svars>>

(******************************* data_prep.py ******************************)
\* data_prep.main line 57: `TARGET not in df.columns`
TargetMissing(csv) == ~HasTarget(csv)

\* main, lines 49-54
PrepDownload ==
    /\ pc = "prep:download"
    /\ \E fails \in BOOLEAN :
        LET r == hf_hub_download(hubData, DataCsv, fails)
        IN  /\ calls' = Append(calls, Call("hf_hub_download", DataCsv, r.exc = "", 0))
            /\ IF r.exc # ""
               THEN Exit(r.exc, DataCsv) /\ UNCHANGED loc
               ELSE /\ loc' = [loc EXCEPT !.df = r.blob]
                    /\ pc' = "prep:compute"
                    /\ UNCHANGED diag
    /\ UNCHANGED <<lib, localCsv, hubData, hubModel, disk, wrote, cvars, svars>>

\* main, lines 56-76: read, check the label, clean, split, fit on X_train
PrepCompute ==
    /\ pc = "prep:compute"
    /\ LET csv == Get(loc.df)
           y == csv.labels
           cols == infer_cols(csv.columns)
           xcols == ColNames(SelectSeq(csv.columns, LAMBDA c : c.name # TARGET))
       IN  IF loc.df = Nil
           THEN Exit("ValueError", "read_csv") /\ UNCHANGED <<loc, calls>>
           ELSE IF TargetMissing(csv)
           THEN Exit("SystemExit", "ProdTaken") /\ UNCHANGED <<loc, calls>>
           ELSE IF ~HasTarget(csv)
           THEN Exit("KeyError", "ProdTaken") /\ UNCHANGED <<loc, calls>>
           ELSE IF lib.split = Nil
           THEN Exit("ValueError", "train_test_split") /\ UNCHANGED <<loc, calls>>
           ELSE LET test == Get(lib.split)
                    train == <<y[1] - test[1], y[2] - test[2]>>
                    X_train == Table(xcols, "X_train", train[1] + train[2])
                    X_test == Table(xcols, "X_test", test[1] + test[2])
                    preproc == make_preprocessor(cols[1], cols[2])
                IN  /\ loc' = [loc EXCEPT !.X_train = Some(X_train),
                                          !.X_test = Some(X_test),
                                          !.y_train = Some(train),
                                          !.y_test = Some(test),
                                          !.preproc = Some(fit(preproc, X_train)),
                                          !.meta = Some([numeric_cols |-> cols[1],
                                                         categorical_cols |-> cols[2],
                                                         target |-> TARGET])]
                    /\ calls' = Append(calls, Call("preproc.fit", "X_train", TRUE, preproc.fits))
                    /\ pc' = "prep:mkdir"
                    /\ UNCHANGED diag
    /\ UNCHANGED <<lib, localCsv, hubData, hubModel, disk, wrote, cvars, svars>>

\* main, lines 79-81
PrepMkdir ==
    /\ pc = "prep:mkdir"
    /\ Mkdir(<<"data", "preprocess">>)
    /\ pc' = "prep:write"
    /\ UNCHANGED <<lib, localCsv, hubData, hubModel, loc, calls, diag, cvars, svars>>

PrepContent(path) ==
    CASE path = "data/X_train.csv" -> Get(loc.X_train)
      [] path = "data/X_test.csv" -> Get(loc.X_test)
      [] path = "data/y_train.csv" -> Get(loc.y_train)
      [] path = "data/y_test.csv" -> Get(loc.y_test)
      [] path = "preprocess/preprocessor.joblib" -> Get(loc.preproc)
      [] path = "preprocess/meta.joblib" -> Get(loc.meta)

\* main, lines 83-90: one of the six writes
PrepWrite ==
    /\ pc = "prep:write"
    /\ WriteStep(PrepOutputs, PrepContent(PrepOutputs[loc.i]))
    /\ UNCHANGED <<lib, localCsv, hubData, hubModel, calls, cvars, svars>>

(********************************* train.py ********************************)
\* main, line 53: model_out_dir.mkdir(parents=True, exist_ok=True)
TrainMkdir ==
    /\ pc = "train:mkdir"
    /\ Mkdir(<<"model">>)
    /\ pc' = "train:load"
    /\ UNCHANGED <<lib, localCsv, hubData, hubModel, loc, calls, diag, cvars, svars>>

\* the inputs of load_artifacts that are not on disk, in the order read
MissingInputs(d) == SelectSeq(TrainInputs, LAMBDA path : d[path] = Nil)

\* main, line 55: load_artifacts; read_csv / joblib.load raise on a missing file
TrainLoad ==
    /\ pc = "train:load"
    /\ IF MissingInputs(disk) # <<>>
       THEN Exit("FileNotFoundError", Head(MissingInputs(disk))) /\ UNCHANGED loc
       ELSE /\ loc' = [loc EXCEPT !.X_train = disk["data/X_train.csv"],
                                  !.X_test = disk["data/X_test.csv"],
                                  !.y_train = disk["data/y_train.csv"],
                                  !.y_test = disk["data/y_test.csv"],
                                  !.preproc = disk["preprocess/preprocessor.joblib"],
                                  !.meta = disk["preprocess/meta.joblib"]]
            /\ pc' = "train:transform"
            /\ UNCHANGED diag
    /\ UNCHANGED <<lib, localCsv, hubData, hubModel, disk, wrote, calls, cvars, svars>>

\* main, lines 58-59
TrainTransform ==
    /\ pc = "train:transform"
    /\ IF \E o \in {loc.X_train, loc.X_test, loc.preproc} : o = Nil
       THEN Exit("TypeError", "load_artifacts") /\ UNCHANGED <<loc, calls>>
       ELSE LET p == Get(loc.preproc)
                p1 == transform(p, Get(loc.X_train))
                p2 == transform(p1, Get(loc.X_test))
            IN  IF TransformRaises(p, Get(loc.X_train)) \/ TransformRaises(p1, Get(loc.X_test))
                THEN Exit("ValueError", "transform") /\ UNCHANGED <<loc, calls>>
                ELSE /\ loc' = [loc EXCEPT !.preproc = Some(p2), !.i = 1]
                     /\ calls' = calls \o <<Call("preproc.transform", "X_train", TRUE, p.fits),
                                            Call("preproc.transform", "X_test", TRUE, p1.fits)>>
                     /\ pc' = "train:candidate"
                     /\ UNCHANGED diag
    /\ UNCHANGED <<lib, localCsv, hubData, hubModel, disk, wrote, cvars, svars>>

\* main, lines 70-80: one turn of the loop over the candidates
TrainCandidate ==
    /\ pc = "train:candidate"
    /\ LET name == candidates[loc.i]
           model == Estimator(name)
           r == evaluate_model(model, Get(loc.y_test), Get(lib.out)[loc.i])
       IN  IF FitRaises(name, Get(loc.y_train))
           THEN Exit("ValueError", name) /\ UNCHANGED loc
           ELSE IF r.raised
           THEN Exit("ValueError", "roc_auc_score") /\ UNCHANGED loc
           ELSE /\ loc' = [loc EXCEPT
                            !.logged = Append(@, [name |-> name, metrics |-> r.metrics]),
                            !.best_name = IF Better(r.metrics, loc.best_metrics)
                                          THEN name ELSE @,
                            !.best_model = IF Better(r.metrics, loc.best_metrics)
                                           THEN Some(model @@ [fit_on |-> Get(loc.y_train)])
                                           ELSE @,
                            !.best_metrics = IF Better(r.metrics, loc.best_metrics)
                                             THEN r.metrics ELSE @,
                            !.i = IF loc.i = Len(candidates) THEN 1 ELSE @ + 1]
                /\ pc' = IF loc.i = Len(candidates) THEN "train:write" ELSE pc
                /\ UNCHANGED diag
    /\ UNCHANGED <<lib, localCsv, hubData, hubModel, disk, wrote, calls, cvars, svars>>

\* main, line 87: joblib.load(artifacts_dir / "preprocess" / "preprocessor.joblib")
BundlePreprocessor(d, l) == d["preprocess/preprocessor.joblib"]

\* main, line 84: joblib.dump(meta, ...)
BundleMeta(l) == l.meta

TrainContent(path) ==
    CASE path = "model/model.joblib" -> loc.best_model
      [] path = "model/meta.joblib" -> BundleMeta(loc)
      [] path = "model/preprocessor.joblib" -> BundlePreprocessor(disk, loc)
      [] path = "model/metrics.json" -> Some([model |-> loc.best_name] @@ loc.best_metrics)

\* main, lines 83-90: one of the four writes
TrainWrite ==
    /\ pc = "train:write"
    /\ IF TrainContent(TrainOutputs[loc.i]) = Nil
       THEN Exit("FileNotFoundError", TrainOutputs[loc.i]) /\ UNCHANGED <<disk, wrote, loc>>
       ELSE WriteStep(TrainOutputs, Get(TrainContent(TrainOutputs[loc.i])))
    /\ UNCHANGED <<lib, localCsv, hubData, hubModel, calls, cvars, svars>>

(***************************** publish_model.py ****************************)
\* publish_model.main line 14 with the test dropped
ArtifactsDirMissing_unchecked(d) == FALSE

\* publish_model.main line 14: `not artifacts_dir.exists()`
ArtifactsDirMissing(d) == d["model"] = Nil

\* main, lines 13-15
PubCheck ==
    /\ pc = "publish:check"
    /\ IF ArtifactsDirMissing(disk)
       THEN Exit("SystemExit", "artifacts/model")
       ELSE pc' = "publish:create" /\ UNCHANGED diag
    /\ UNCHANGED <<lib, localCsv, hubData, hubModel, disk, loc, wrote, calls, cvars, svars>>

\* main, lines 18-24: create_repo(repo_type="model", exist_ok=True)
PubCreate ==
    /\ pc = "publish:create"
    /\ \E fails \in BOOLEAN :
        /\ calls' = Append(calls, Call("create_repo", "model", ~fails, 0))
        /\ IF fails
           THEN Exit("HfHubHTTPError", "create_repo") /\ UNCHANGED hubModel
           ELSE /\ hubModel' = [hubModel EXCEPT !.exists = TRUE]
                /\ pc' = "publish:upload"
                /\ UNCHANGED diag
    /\ UNCHANGED <<lib, localCsv, hubData, disk, loc, wrote, cvars, svars>>

ModelPath(f) ==
    CASE f = "model.joblib" -> "model/model.joblib"
      [] f = "meta.joblib" -> "model/meta.joblib"
      [] f = "preprocessor.joblib" -> "model/preprocessor.joblib"
      [] f = "metrics.json" -> "model/metrics.json"

\* main, lines 26-33: upload_folder commits the files the folder holds and
\* leaves the repository's other files as they are
PubUpload ==
    /\ pc = "publish:upload"
    /\ \E fails \in BOOLEAN :
        /\ calls' = Append(calls, Call("upload_folder", "model", ~fails /\ disk["model"] # Nil, 0))
        /\ IF fails \/ disk["model"] = Nil
           THEN Exit(IF fails THEN "HfHubHTTPError" ELSE "ValueError", "upload_folder")
                /\ UNCHANGED hubModel
           ELSE /\ hubModel' = [hubModel EXCEPT !.files =
                                  [f \in ModelFiles |-> IF disk[ModelPath(f)] # Nil
                                                        THEN disk[ModelPath(f)]
                                                        ELSE hubModel.files[f]]]
                /\ Done
    /\ UNCHANGED <<lib, localCsv, hubData, disk, loc, wrote, cvars, svars>>

(********************************** app.py *********************************)
\* lines 15-21: one turn of the loop over REQUIRED
AppDownload ==
    /\ pc = "app:download"
    /\ \E fails \in BOOLEAN :
        LET fname == REQUIRED[loc.i]
            r == hf_hub_download(hubModel, fname, fails)
        IN  /\ calls' = Append(calls, Call("hf_hub_download", fname, r.exc = "", 0))
            /\ IF r.exc # ""
               THEN Exit(r.exc, fname) /\ UNCHANGED loc
               ELSE /\ loc' = [loc EXCEPT !.i = IF loc.i = Len(REQUIRED) THEN 1 ELSE @ + 1,
                                          !.preproc = IF fname = "preprocessor.joblib" THEN r.blob ELSE @,
                                          !.model = IF fname = "model.joblib" THEN r.blob ELSE @,
                                          !.meta = IF fname = "meta.joblib" THEN r.blob ELSE @]
                    /\ pc' = IF loc.i = Len(REQUIRED) THEN "app:form" ELSE pc
                    /\ UNCHANGED diag
    /\ UNCHANGED <<lib, localCsv, hubData, hubModel, disk, wrote, cvars, svars>>

\* the widgets of lines 34-37, in the order created
FormFields(meta) ==
    [i \in 1..Len(meta.numeric_cols) |->
        [name |-> meta.numeric_cols[i], widget |-> "number_input"]]
    \o [i \in 1..Len(meta.categorical_cols) |->
        [name |-> meta.categorical_cols[i], widget |-> "text_input"]]

\* lines 23-38: joblib.load of the three files, then the form
AppForm ==
    /\ pc = "app:form"
    /\ IF \E o \in {loc.preproc, loc.model, loc.meta} : o = Nil
       THEN Exit("TypeError", "joblib.load") /\ UNCHANGED loc
       ELSE /\ loc' = [loc EXCEPT !.fields = Some(FormFields(Get(loc.meta)))]
            /\ pc' = "app:submit"
            /\ UNCHANGED diag
    /\ UNCHANGED <<lib, localCsv, hubData, hubModel, disk, wrote, calls, cvars, svars>>

\* lines 40-49: the run ends when the form was not submitted; otherwise the
\* record is assembled, transformed and predicted
AppSubmit ==
    /\ pc = "app:submit"
    /\ \E submitted \in BOOLEAN :
        IF ~submitted
        THEN Done /\ UNCHANGED <<loc, calls>>
        ELSE LET p == Get(loc.preproc)
                 X == Table(all_cols(Get(loc.meta)), "form", 1)
                 model == Get(loc.model)
             IN  IF TransformRaises(p, X)
                 THEN Exit("ValueError", "transform") /\ UNCHANGED <<loc, calls>>
                 ELSE \E pred \in {0, 1} :
                        /\ loc' = [loc EXCEPT
                                    !.X = Some(X),
                                    !.preproc = Some(transform(p, X)),
                                    !.shown = Some([pred |-> pred,
                                                    proba |-> model.predict_proba])]
                        /\ calls' = calls
                             \o <<Call("preproc.transform", "form", TRUE, p.fits)>>
                             \o (IF model.predict_proba
                                 THEN <<Call("model.predict_proba", "form", TRUE, 0)>>
                                 ELSE <<>>)
                             \o <<Call("model.predict", "form", TRUE, 0)>>
                        /\ Done
    /\ UNCHANGED <<lib, localCsv, hubData, hubModel, disk, wrote, cvars, svars>>

Next ==
    \/ Start
    \/ RegCheck
    \/ RegCreate
    \/ RegUpload
    \/ PrepDownload
    \/ PrepCompute
    \/ PrepMkdir
    \/ PrepWrite
    \/ TrainMkdir
    \/ TrainLoad
    \/ TrainTransform
    \/ TrainCandidate
    \/ TrainWrite
    \/ PubCheck
    \/ PubCreate
    \/ PubUpload
    \/ AppDownload
    \/ AppForm
    \/ AppSubmit

Spec == Init /\ [][Next]_vars

(***************************************************************************)
(* Claims about the pipeline (Spec).                                       *)
(***************************************************************************)
MaxTest == 2

IsPrefix(a, b) == Len(a) <= Len(b) /\ \A i \in 1..Len(a) : a[i] = b[i]

\* the output blobs among the paths a run has written, directories left out
Blobs(w) == SelectSeq(w, LAMBDA path : path \notin Dirs)

StageOutputs(script) == IF script = "data_prep" THEN PrepOutputs ELSE TrainOutputs

CallsOf(ops) == {i \in 1..Len(calls) : calls[i].op \in ops}

LoggedF1(i) == loc.logged[i].metrics.f1

\* C1: at every point of the candidate loop and after it, the selected candidate
\* is the first one evaluated whose F1 is the maximum of the F1 values logged so
\* far (a later candidate with an equal F1 does not replace it); every F1 lies
\* in [0, 1]; once a candidate has been evaluated best_name is not None.
C1_FirstMaxF1Selected ==
    loc.script = "train" =>
        /\ \A i \in 1..Len(loc.logged) :
            /\ loc.logged[i].name = candidates[i]
            /\ LoggedF1(i).den > 0
            /\ 0 <= LoggedF1(i).num /\ LoggedF1(i).num <= LoggedF1(i).den
        /\ loc.logged = <<>> => loc.best_name = "None"
        /\ loc.logged # <<>> =>
            /\ loc.best_name # "None"
            /\ \E i \in 1..Len(loc.logged) :
                /\ loc.best_name = loc.logged[i].name
                /\ loc.best_metrics = loc.logged[i].metrics
                /\ loc.best_model # Nil /\ Get(loc.best_model).name = loc.logged[i].name
                /\ \A j \in 1..Len(loc.logged) : ~FloatGT(LoggedF1(j), LoggedF1(i))
                /\ \A j \in 1..(i - 1) : FloatGT(LoggedF1(i), LoggedF1(j))
        /\ pc \in {"train:write", "done"} => Len(loc.logged) = Len(candidates)
        /\ "model/metrics.json" \in Range(wrote) =>
            Get(disk["model/metrics.json"]).model = loc.best_name

\* both candidates were evaluated with the same positive F1 and the first is kept
C1_Witness ==
    /\ loc.script = "train" /\ pc = "done"
    /\ Len(loc.logged) = 2
    /\ FloatEQ(LoggedF1(1), LoggedF1(2)) /\ LoggedF1(1).num > 0
    /\ loc.logged[1].metrics # loc.logged[2].metrics
    /\ loc.best_name = "logreg"
    /\ Get(disk["model/model.joblib"]).name = "logreg"

\* the required files the model repository does not hold
MissingBlobs == {f \in Range(REQUIRED) : ~hubModel.exists \/ hubModel.files[f] = Nil}

\* C2: when a required file is missing from the model repository, a run of the
\* app never gets past the downloads: no form is built, transform, predict and
\* predict_proba are never called, and the run ends with the download's
\* exception, which names a missing file when it is "entry not found".
C2_MissingBlobStopsApp ==
    (loc.script = "app" /\ MissingBlobs # {}) =>
        /\ pc \in {"app:download", "exit"}
        /\ loc.fields = Nil /\ loc.X = Nil /\ loc.shown = Nil
        /\ CallsOf({"preproc.transform", "model.predict", "model.predict_proba"}) = {}
        /\ pc = "exit" =>
            /\ diag.status # 0
            /\ diag.kind \in {"EntryNotFoundError", "RepositoryNotFoundError", "HfHubHTTPError"}
            /\ diag.kind = "EntryNotFoundError" => diag.what \in MissingBlobs

\* the repository holds model.joblib but no preprocessor.joblib and the app has
\* ended on the failed download
C2_Witness ==
    /\ loc.script = "app" /\ pc = "exit"
    /\ hubModel.exists /\ hubModel.files["model.joblib"] # Nil
    /\ diag = Diag("EntryNotFoundError", "preprocessor.joblib", 1)
    /\ CallsOf({"preproc.transform", "model.predict", "model.predict_proba"}) = {}

\* C4 as stated: a run of data_prep or train ends with all of its output blobs
\* written or with none of them written.
C4_Original ==
    (loc.script \in {"data_prep", "train"} /\ pc \in {"done", "exit"}) =>
        Blobs(wrote) \in {<<>>, StageOutputs(loc.script)}

\* C4 amended: a stage writes its blobs in a fixed order after all its reading
\* and computing; a run that succeeds has written all of them, a run that fails
\* before the first write has written none, and a run that has written some but
\* not all failed on the very write (or, in train, the re-read of the
\* preprocessor) that comes next in that order.
C4_AllOrPrefixOnWriteFailure ==
    loc.script \in {"data_prep", "train"} =>
        /\ IsPrefix(Blobs(wrote), StageOutputs(loc.script))
        /\ pc = "done" =>
            /\ Blobs(wrote) = StageOutputs(loc.script)
            /\ \A path \in Range(StageOutputs(loc.script)) : disk[path] # Nil
        /\ (pc = "exit" /\ Blobs(wrote) # <<>>) =>
            /\ diag.kind \in {"OSError", "FileNotFoundError"}
            /\ diag.what = StageOutputs(loc.script)[Len(Blobs(wrote)) + 1]
        /\ (pc = "exit" /\ diag.what \notin Range(StageOutputs(loc.script))) =>
            Blobs(wrote) = <<>>
        /\ pc \notin {"prep:write", "train:write", "done", "exit"} => Blobs(wrote) = <<>>

\* train has failed on its third write with the first two blobs written
C4_Witness ==
    /\ loc.script = "train" /\ pc = "exit"
    /\ Blobs(wrote) = <<"model/model.joblib", "model/meta.joblib">>
    /\ diag = Diag("OSError", "model/preprocessor.joblib", 1)

\* every place a preprocessing transform is held
Preprocessors ==
    {disk["preprocess/preprocessor.joblib"], disk["model/preprocessor.joblib"],
     hubModel.files["preprocessor.joblib"], loc.preproc}

\* C5: every transform held anywhere was fitted exactly once, on X_train; fit is
\* called only by data_prep, once, on a fresh transform; every transform call is
\* made on a fitted transform; train and the app never call fit and leave the
\* transform as loaded; the transform train puts in the bundle is the one
\* data_prep persisted and train transformed with.
C5_FitOnceThenTransformOnly ==
    /\ \A o \in Preprocessors :
        o # Nil => /\ Get(o).fits = 1
                   /\ Get(o).fit_on # Nil /\ Get(Get(o).fit_on).part = "X_train"
    /\ \A i \in CallsOf({"preproc.fit"}) :
        /\ loc.script = "data_prep"
        /\ calls[i].arg = "X_train" /\ calls[i].fits = 0
        /\ CallsOf({"preproc.fit"}) = {i}
        /\ CallsOf({"preproc.transform"}) = {}
    /\ \A i \in CallsOf({"preproc.transform"}) :
        /\ loc.script \in {"train", "app"}
        /\ calls[i].fits = 1
    /\ (loc.script = "train" /\ loc.preproc # Nil) =>
        loc.preproc = disk["preprocess/preprocessor.joblib"]
    /\ (loc.script = "train" /\ "model/preprocessor.joblib" \in Range(wrote)) =>
        /\ disk["model/preprocessor.joblib"] = loc.preproc
        /\ disk["model/preprocessor.joblib"] = disk["preprocess/preprocessor.joblib"]
    /\ (loc.script = "app" /\ loc.preproc # Nil) =>
        loc.preproc = hubModel.files["preprocessor.joblib"]

\* the app has transformed a submitted record with the transform that data_prep
\* fitted, train bundled and publish_model uploaded
C5_Witness ==
    /\ loc.script = "app" /\ pc = "done" /\ loc.shown # Nil
    /\ CallsOf({"preproc.transform"}) # {}
    /\ loc.preproc = disk["model/preprocessor.joblib"]
    /\ loc.preproc = disk["preprocess/preprocessor.joblib"]
    /\ Get(loc.preproc).fits = 1

MetricsOK(model, yt, r) ==
    /\ ~r.raised
    /\ {"accuracy", "precision", "recall", "f1"} \subseteq DOMAIN r.metrics
    /\ ("roc_auc" \in DOMAIN r.metrics) <=> model.predict_proba
    /\ (model.predict_proba /\ RocAucRaises(yt)) => IsNaN(r.metrics.roc_auc)
    /\ (model.predict_proba /\ ~RocAucRaises(yt)) => ~IsNaN(r.metrics.roc_auc)

\* evaluate_model on every model and test label vector within MaxTest
EvaluateModelTotal ==
    \A m \in [name : {"m"}, predict_proba : BOOLEAN] :
        \A yt \in ((0..MaxTest) \X (0..MaxTest)) \ {<<0, 0>>} :
            \A o \in Outputs(yt) : MetricsOK(m, yt, evaluate_model(m, yt, o))

\* C6: for every model, with or without predict_proba, and every test label
\* vector of up to MaxTest rows per class, evaluate_model returns without raising
\* a record holding accuracy, precision, recall and f1, and roc_auc exactly when
\* the model has predict_proba, NaN when roc_auc_score fails; in train.main no
\* run ends on roc_auc_score, and with single-class test labels every logged
\* record and the metrics.json written carry a NaN roc_auc.
C6_RocAucDegeneracy ==
    /\ EvaluateModelTotal
    /\ ~(diag.kind = "ValueError" /\ diag.what = "roc_auc_score")
    /\ loc.script = "train" =>
        /\ \A i \in 1..Len(loc.logged) :
            MetricsOK(Estimator(loc.logged[i].name), Get(loc.y_test),
                      [raised |-> FALSE, metrics |-> loc.logged[i].metrics])
        /\ (pc = "done" /\ SingleClass(Get(loc.y_test))) =>
            IsNaN(Get(disk["model/metrics.json"]).roc_auc)

\* train has run to its end on single-class test labels: both candidates were
\* evaluated with a NaN roc_auc and the bundle was written
C6_Witness ==
    /\ loc.script = "train" /\ pc = "done"
    /\ SingleClass(Get(loc.y_test))
    /\ Len(loc.logged) = 2
    /\ \A i \in 1..2 : IsNaN(loc.logged[i].metrics.roc_auc)
    /\ Blobs(wrote) = TrainOutputs

\* the run has aborted on a missing precondition
MissingAbort ==
    /\ pc = "exit"
    /\ \/ loc.script = "register_dataset" /\ diag.kind = "SystemExit"
       \/ loc.script = "data_prep" /\ diag.kind = "SystemExit"
       \/ loc.script = "publish_model" /\ diag.kind = "SystemExit"
       \/ loc.script = "train" /\ diag.kind = "FileNotFoundError"
                               /\ diag.what \in Range(TrainInputs)

HubWrites == CallsOf({"create_repo", "upload_file", "upload_folder"})

\* C8 as stated: a run that aborts on a missing precondition has written no
\* file or directory and made no create_repo / upload call.
C8_Original == MissingAbort => (wrote = <<>> /\ HubWrites = {})

\* C8 amended: a script whose precondition is missing never gets past its
\* check: it ends with a non-zero status and a diagnostic naming the missing
\* artifact, having written no output file and made no create_repo / upload
\* call; data_prep, publish_model and register_dataset have created no directory
\* either, while train.main has by then created the model output directory
\* when it did not exist.
C8_MissingPreconditionAborts ==
    /\ MissingAbort =>
        /\ diag.status # 0
        /\ Blobs(wrote) = <<>>
        /\ HubWrites = {}
        /\ IF loc.script = "train" THEN Range(wrote) \subseteq {"model"} ELSE wrote = <<>>
    /\ (loc.script = "register_dataset" /\ localCsv = Nil /\ pc # "register:check") =>
        pc = "exit" /\ diag = Diag("SystemExit", "tourism_project/data/tourism.csv", 1)
    /\ (loc.script = "data_prep" /\ loc.df # Nil /\ pc # "prep:compute") =>
        (~HasTarget(Get(loc.df)) => pc = "exit" /\ diag = Diag("SystemExit", "ProdTaken", 1))
    /\ (loc.script = "publish_model" /\ disk["model"] = Nil /\ pc # "publish:check") =>
        pc = "exit" /\ diag = Diag("SystemExit", "artifacts/model", 1)
    /\ (loc.script = "train" /\ MissingInputs(disk) # <<>>
            /\ pc \notin {"train:mkdir", "train:load"}) =>
        pc = "exit" /\ diag = Diag("FileNotFoundError", Head(MissingInputs(disk)), 1)

\* train has aborted on a missing input after creating the model directory
C8_Witness ==
    /\ loc.script = "train" /\ pc = "exit"
    /\ diag = Diag("FileNotFoundError", "data/X_train.csv", 1)
    /\ wrote = <<"model">>
    /\ HubWrites = {}

\* C9: train holds the meta data_prep wrote and writes it to the bundle
\* unchanged; the app builds one field per column of its meta, numeric columns
\* first, and the record it transforms has its columns in the order
\* numeric_cols followed by categorical_cols.
C9_SchemaUnchanged ==
    /\ (loc.script = "train" /\ loc.meta # Nil) => loc.meta = disk["preprocess/meta.joblib"]
    /\ (loc.script = "train" /\ "model/meta.joblib" \in Range(wrote)) =>
        /\ disk["model/meta.joblib"] = disk["preprocess/meta.joblib"]
        /\ disk["model/meta.joblib"] = loc.meta
    /\ (loc.script = "app" /\ loc.fields # Nil) =>
        LET meta == Get(loc.meta)
            fields == Get(loc.fields)
        IN  /\ loc.meta = hubModel.files["meta.joblib"]
            /\ ColNames(fields) = meta.numeric_cols \o meta.categorical_cols
            /\ Cardinality(Range(ColNames(fields))) = Len(fields)
            /\ \A i \in 1..Len(fields) :
                fields[i].widget = IF i <= Len(meta.numeric_cols)
                                   THEN "number_input" ELSE "text_input"
            /\ loc.X # Nil =>
                Get(loc.X).columns = meta.numeric_cols \o meta.categorical_cols

\* the app has transformed a record for a schema with a numeric and a
\* categorical column, loaded from the bundle train wrote
C9_Witness ==
    /\ loc.script = "app" /\ pc = "done" /\ loc.X # Nil
    /\ Get(loc.meta).numeric_cols = <<(<<97>>)>>
    /\ Get(loc.meta).categorical_cols = <<(<<65>>)>>
    /\ Get(loc.X).columns = <<(<<97>>), (<<65>>)>>
    /\ loc.meta = disk["model/meta.joblib"]
    /\ loc.meta = disk["preprocess/meta.joblib"]

\* the identifier exists under an incompatible kind and not as a space
IncompatibleOnly(kinds) == "space" \notin kinds /\ kinds \cap {"dataset", "model"} # {}

SCalled(op) == {i \in 1..Len(scalls) : scalls[i].op = op}

\* C3 as stated: create_repo and upload_folder are never called while the
\* identifier exists on the hub as a dataset or model and not as a space.
C3_Original == \A i \in 1..Len(scalls) : ~IncompatibleOnly(scalls[i].hub)

\* C3 amended: when the space probe did not find a space and exists_as_other_type
\* found the identifier as a dataset or model, main exits with a SystemExit
\* naming that kind and has called neither create_repo nor upload_folder.
C3_RejectsObservedOtherKind ==
    /\ sloc.other \in {"dataset", "model"} =>
        /\ sloc.is_space = FALSE
        /\ spc = "exit"
        /\ sdiag = SExit("SystemExit", sloc.other)
        /\ scalls = <<>>
    /\ (spc \in {"create", "upload", "done"} \/ scalls # <<>>) => sloc.other = None

\* main has exited after the probe found the identifier as a model
C3_Witness ==
    /\ spc = "exit"
    /\ sloc = [is_space |-> FALSE, other |-> "model"]
    /\ sdiag = SExit("SystemExit", "model")
    /\ scalls = <<>>

CreateContinues(r) == r.exc = None \/ (r.exc = "HfHubHTTPError" /\ r.status = "409")

\* C10: upload_folder is called only after the identifier was observed as a
\* space, or create_repo returned, or create_repo failed with HTTP 409; after
\* any other create_repo error main has exited with that error and never calls
\* upload_folder; create_repo is never called once the identifier was observed
\* as a space, and is called at most once, before upload_folder.
C10_CreateThenUpload ==
    /\ \A i \in SCalled("upload_folder") :
        \/ sloc.is_space = TRUE
        \/ \E j \in SCalled("create_repo") : j < i /\ CreateContinues(scalls[j].result)
    /\ \A j \in SCalled("create_repo") :
        /\ sloc.is_space = FALSE
        /\ j = 1
        /\ ~CreateContinues(scalls[j].result) =>
            /\ SCalled("upload_folder") = {}
            /\ spc = "exit"
            /\ sdiag = SExit(scalls[j].result.exc, scalls[j].result.status)
    /\ spc \in {"upload", "done"} =>
        \/ sloc.is_space = TRUE
        \/ \E j \in SCalled("create_repo") : CreateContinues(scalls[j].result)

\* create_repo answered 409 and upload_folder was then called and succeeded
C10_Witness ==
    /\ spc = "done"
    /\ sloc.is_space = FALSE
    /\ Len(scalls) = 2
    /\ scalls[1].op = "create_repo" /\ scalls[1].result.status = "409"
    /\ scalls[2].op = "upload_folder" /\ scalls[2].result.exc = None

IsSortedLex(s) == \A i, j \in 1..Len(s) : i < j => LexLess(s[i], s[j])

\* C7: for every DataFrame, infer_cols returns two disjoint lists whose union is
\* the set of non-label columns (ProdTaken in neither), each list sorted
\* lexicographically, with every column listed once; a DataFrame without
\* columns yields two empty lists.
C7_InferColsPartition ==
    cols_out # None =>
        LET num == cols_out[1]
            cat == cols_out[2]
        IN  /\ Range(num) \cap Range(cat) = {}
            /\ Range(num) \cup Range(cat) = Range(ColNames(df)) \ {TARGET}
            /\ Range(num) = {c.name : c \in {x \in Range(df) : x.numeric}} \ {TARGET}
            /\ IsSortedLex(num) /\ IsSortedLex(cat)
            /\ Len(num) + Len(cat) = Cardinality(Range(ColNames(df)) \ {TARGET})
            /\ (df = <<>> => num = <<>> /\ cat = <<>>)

\* infer_cols has returned for a DataFrame that holds the label, a numeric and a
\* categorical column, given in an order that is not the sorted one
C7_Witness ==
    /\ cols_out # None
    /\ Len(df) = 3
    /\ df[1].name = <<97>> /\ df[1].numeric
    /\ df[2].name = TARGET
    /\ df[3].name = <<65>> /\ ~df[3].numeric
    /\ cols_out = << <<(<<97>>)>>, <<(<<65>>)>> >>
====
